---- MODULE Spec2Model ----
(***************************************************************************)
(* Model of robosuite/scripts/collect_human_demonstrations.py:             *)
(*   - gather_demonstrations_as_hdf5: the aggregation of raw episode       *)
(*     directories into demo.hdf5, statement by statement (specification   *)
(*     SpecAgg) and as a function of a raw-directory tree, run twice       *)
(*     (specification SpecTree);                                           *)
(*   - EnvRunner and collect_human_trajectory: the controller thread and   *)
(*     the stepper thread of one episode (specifications Spec, SpecFair).  *)
(***************************************************************************)
EXTENDS Integers, Sequences, FiniteSets, TLC

(***************************************************************************)
(* Bounds of the model.                                                    *)
(***************************************************************************)
\* episode directories listed by os.listdir(directory) in one run
MaxEpisodes == 2
\* state_*.npz chunk files of one episode directory
MaxChunks == 3
\* states, and action records, held by one chunk file
MaxChunkLen == 1

\* simulation steps the stepper may apply beyond max_steps while the controller
\* has not yet set the stop signal
MaxOvershoot == 2

\* episode directories in a raw-directory tree
MaxTreeDirs == 1
\* chunk files in a raw-directory tree
MaxTreeFiles == 2

\* line 35: freq=50
freq == 50
\* line 86: max_steps = 10 * env_runner.freq
DurationSeconds == 10
\* line 89 and line 127: the latch is not holding
NotHolding == -1
\* line 125: the count a first success starts from
HoldStart == 10

\* actions input2action can return, besides None
Actions == {"A", "B"}

\* values of dic["env"]
Envs == {"Lift", "Stack"}

None == "None"

VARIABLES
    \* ---- gather_demonstrations_as_hdf5 ----
    aggPc,        \* position in the function, or the exception that left it
    container,    \* the file at hdf5_path
    before,       \* history: the file at hdf5_path when the run began
    num_eps,      \* line 177
    env_name,     \* line 178
    nDirs,        \* entries of os.listdir(directory) visited so far
    states,       \* line 182
    actions,      \* line 183
    success,      \* line 186
    flags,        \* history: dic["successful"] of the chunks read, in order
    raw,          \* history: states and action records read in this directory
    visited       \* history: one summary per episode directory processed

aggVars == <<aggPc, container, before, num_eps, env_name, nDirs,
             states, actions, success, flags, raw, visited>>

VARIABLES
    \* ---- collect_human_trajectory (controller) and EnvRunner (stepper) ----
    cpc,                         \* position of the controller thread
    spc,                         \* position of the stepper thread
    lock,                        \* owner of EnvRunner.lock
    action,                      \* EnvRunner.action
    stop_event,                  \* EnvRunner.stop_event
    current_timestamps,          \* the global of line 7
    tmp,                         \* the stepper's operand of line 54's +=
    pending,                     \* the controller's local `action` (line 99)
    task_completion_hold_count,  \* line 89
    applied,                     \* history: env.step calls of the episode
    lastApplied,                 \* history: the action of the last env.step
    streak,                      \* history: consecutive true _check_success()
    outcome,                     \* history: how the loop was left
    joined,                      \* history: step_thread.join() has returned
    closed,                      \* history: env.close() was called
    heldZero,                    \* history: the hold count has reached 0
    zeroInputs,                  \* history: actions obtained after heldZero
    zeroSets,                    \* history: set_action calls after heldZero
    idleTick,                    \* history: the last tick found no action
    afterStop,                   \* history: env.step calls after the stop
    lastSet,                     \* history: argument of the last set_action
    mailbox,                     \* history: set_action calls since the last tick
    \* ---- gather_demonstrations_as_hdf5 run on a given raw-directory tree ----
    tree,         \* the raw-directory tree: directories in os.listdir order
    runs,         \* runs of the function on the tree so far
    raised,       \* the exception that ended the last run, or "none"
    merged,       \* history: the merged sequences of each directory, last run
    first         \* history: the file and the exception after the first run

colVars == <<cpc, spc, lock, action, stop_event, current_timestamps, tmp, pending,
             task_completion_hold_count, applied, lastApplied, streak, outcome,
             joined, closed>>

obsVars == <<heldZero, zeroInputs, zeroSets, idleTick, afterStop, lastSet,
             mailbox>>

treeVars == <<tree, runs, raised, merged, first>>

vars == <<aggVars, colVars, obsVars, treeVars>>

(***************************************************************************)
(* EnvRunner and collect_human_trajectory                                  *)
(***************************************************************************)

\* line 86
max_steps == DurationSeconds * freq

\* mutant of LockFree: the lock excludes nobody
LockFreeAlways == TRUE

\* lines 43 and 51: `with self.lock` can be entered
LockFree == lock = "none"

\* mutant of TimedOut: the budget is one step short
TimedOutOneEarly(c) == c >= max_steps - 1

\* line 129: current_timestamps >= max_steps
TimedOut(c) == c >= max_steps

\* mutant of StepperExited: the join does not wait for the thread
StepperExitedNoWait == TRUE

\* lines 134 and 139: step_thread.join() returns once run_step has returned
StepperExited == spc = "exited"

\* mutant of Completed: the loop is never left at hold count 0
CompletedNever(h) == FALSE

\* line 117: task_completion_hold_count == 0
Completed(h) == h = 0

\* mutant of SlotEmpty: the stepper never finds an action
SlotEmptyAlways(a) == TRUE

\* mutant of SlotEmpty: the stepper steps whatever the slot holds
SlotEmptyNever(a) == FALSE

\* line 52: self.action is None (the negation of the test)
SlotEmpty(a) == a = None

\* mutant of StopSeen: the loop condition ignores the event
StopSeenNever == FALSE

\* line 49: self.stop_event.is_set()
StopSeen == stop_event

\* mutant of SlotWrite: a queue of one that keeps the oldest unconsumed value
SlotWriteIfEmpty(old, new) == IF old = None THEN new ELSE old

\* line 44: self.action = action
SlotWrite(old, new) == new

\* mutant of LatchNext: a false predicate leaves the count where it is
LatchNextNoReset(h, ok) ==
    IF ok THEN (IF h > 0 THEN h - 1 ELSE HoldStart) ELSE h

\* lines 121-127: the latch after one evaluation of env._check_success()
LatchNext(h, ok) ==
    IF ok THEN (IF h > 0 THEN h - 1 ELSE HoldStart) ELSE NotHolding

\* lines 35-40 and 83-89, after step_thread.start(); line 319 for the counter
InitCol ==
    /\ cpc = "start"
    /\ spc = "check"
    /\ lock = "none"
    /\ action = None
    /\ stop_event = FALSE
    /\ current_timestamps = 0
    /\ tmp = 0
    /\ pending = None
    /\ task_completion_hold_count = NotHolding
    /\ applied = 0
    /\ lastApplied = None
    /\ streak = 0
    /\ outcome = "running"
    /\ joined = FALSE
    /\ closed = FALSE
    /\ heldZero = FALSE
    /\ zeroInputs = 0
    /\ zeroSets = 0
    /\ idleTick = FALSE
    /\ afterStop = 0
    /\ lastSet = None
    /\ mailbox = "consumed"

\* ---- the controller thread: collect_human_trajectory ----

\* lines 86-94: device.start_control(), the try block is entered
Start ==
    /\ cpc = "start"
    /\ cpc' = "input"
    /\ UNCHANGED <<spc, lock, action, stop_event, current_timestamps, tmp, pending,
                   task_completion_hold_count, applied, lastApplied, streak,
                   outcome, joined, closed>>
    /\ UNCHANGED <<aggVars, treeVars>>
    /\ UNCHANGED obsVars

\* lines 96-109: input2action; None is the operator's reset
Input2Action ==
    /\ cpc = "input"
    /\ \E a \in Actions \cup {None} :
        /\ pending' = a
        /\ cpc' = IF a = None THEN "stop" ELSE "set_lock"
        /\ outcome' = IF a = None THEN "abort" ELSE outcome
        /\ zeroInputs' = IF heldZero /\ a # None THEN zeroInputs + 1 ELSE zeroInputs
    /\ UNCHANGED <<spc, lock, action, stop_event, current_timestamps, tmp,
                   task_completion_hold_count, applied, lastApplied, streak,
                   joined, closed>>
    /\ UNCHANGED <<aggVars, treeVars>>
    /\ UNCHANGED <<heldZero, zeroSets, idleTick, afterStop, lastSet, mailbox>>

\* lines 113 and 43: set_action enters `with self.lock`
SetActionAcquire ==
    /\ cpc = "set_lock"
    /\ LockFree
    /\ lock' = "controller"
    /\ cpc' = "set_write"
    /\ UNCHANGED <<spc, action, stop_event, current_timestamps, tmp, pending,
                   task_completion_hold_count, applied, lastApplied, streak,
                   outcome, joined, closed>>
    /\ UNCHANGED <<aggVars, treeVars>>
    /\ UNCHANGED obsVars

\* line 44, and the release of the lock
SetActionWrite ==
    /\ cpc = "set_write"
    /\ action' = SlotWrite(action, pending)
    /\ lastSet' = pending
    /\ mailbox' = IF mailbox # "consumed" /\ pending # lastSet
                  THEN "overwritten"
                  ELSE IF mailbox = "consumed" THEN "set" ELSE mailbox
    /\ zeroSets' = IF heldZero THEN zeroSets + 1 ELSE zeroSets
    /\ lock' = "none"
    /\ cpc' = "latch"
    /\ UNCHANGED <<spc, stop_event, current_timestamps, tmp, pending,
                   task_completion_hold_count, applied, lastApplied, streak,
                   outcome, joined, closed>>
    /\ UNCHANGED <<aggVars, treeVars>>
    /\ UNCHANGED <<heldZero, zeroInputs, idleTick, afterStop>>

\* lines 114-127: render, the break at hold count 0, else the latch update
Latch ==
    /\ cpc = "latch"
    /\ IF Completed(task_completion_hold_count)
       THEN /\ cpc' = "stop"
            /\ outcome' = "success"
            /\ UNCHANGED <<task_completion_hold_count, streak, heldZero>>
       ELSE \E ok \in BOOLEAN :
            /\ task_completion_hold_count' = LatchNext(task_completion_hold_count, ok)
            /\ streak' = IF ok THEN streak + 1 ELSE 0
            /\ heldZero' = (heldZero \/ task_completion_hold_count' = 0)
            /\ cpc' = "timeout"
            /\ UNCHANGED outcome
    /\ UNCHANGED <<spc, lock, action, stop_event, current_timestamps, tmp, pending,
                   applied, lastApplied, joined, closed>>
    /\ UNCHANGED <<aggVars, treeVars>>
    /\ UNCHANGED <<zeroInputs, zeroSets, idleTick, afterStop, lastSet, mailbox>>

\* line 129: the counter is read, without the lock
TimeoutCheck ==
    /\ cpc = "timeout"
    /\ IF TimedOut(current_timestamps)
       THEN cpc' = "reset" /\ outcome' = "timeout"
       ELSE cpc' = "input" /\ UNCHANGED outcome
    /\ UNCHANGED <<spc, lock, action, stop_event, current_timestamps, tmp, pending,
                   task_completion_hold_count, applied, lastApplied, streak,
                   joined, closed>>
    /\ UNCHANGED <<aggVars, treeVars>>
    /\ UNCHANGED obsVars

\* lines 130-131: the counter is reset, without the lock; break
ResetCounter ==
    /\ cpc = "reset"
    /\ current_timestamps' = 0
    /\ cpc' = "stop"
    /\ UNCHANGED <<spc, lock, action, stop_event, tmp, pending,
                   task_completion_hold_count, applied, lastApplied, streak,
                   outcome, joined, closed>>
    /\ UNCHANGED <<aggVars, treeVars>>
    /\ UNCHANGED obsVars

\* line 138 (line 133 in the handler)
SetStop ==
    /\ cpc \in {"stop", "kbi_stop"}
    /\ stop_event' = TRUE
    /\ cpc' = IF cpc = "stop" THEN "join" ELSE "kbi_join"
    /\ UNCHANGED <<spc, lock, action, current_timestamps, tmp, pending,
                   task_completion_hold_count, applied, lastApplied, streak,
                   outcome, joined, closed>>
    /\ UNCHANGED <<aggVars, treeVars>>
    /\ UNCHANGED obsVars

\* line 139 (line 134, then the raise of line 135, in the handler)
Join ==
    /\ cpc \in {"join", "kbi_join"}
    /\ StepperExited
    /\ joined' = TRUE
    /\ cpc' = IF cpc = "join" THEN "close" ELSE "raised"
    /\ UNCHANGED <<spc, lock, action, stop_event, current_timestamps, tmp, pending,
                   task_completion_hold_count, applied, lastApplied, streak,
                   outcome, closed>>
    /\ UNCHANGED <<aggVars, treeVars>>
    /\ UNCHANGED obsVars

\* line 140
Close ==
    /\ cpc = "close"
    /\ closed' = TRUE
    /\ cpc' = "done"
    /\ UNCHANGED <<spc, lock, action, stop_event, current_timestamps, tmp, pending,
                   task_completion_hold_count, applied, lastApplied, streak,
                   outcome, joined>>
    /\ UNCHANGED <<aggVars, treeVars>>
    /\ UNCHANGED obsVars

\* KeyboardInterrupt in the main thread. Inside the try block (lines 93-131) the
\* handler of line 132 runs, and `with self.lock` releases the lock on the way;
\* anywhere else after the thread was started it leaves the function at once.
Interrupt ==
    /\ cpc \in {"start", "input", "set_lock", "set_write", "latch", "timeout",
                "reset", "stop", "join", "close", "kbi_stop", "kbi_join"}
    /\ cpc' = IF cpc \in {"input", "set_lock", "set_write", "latch", "timeout",
                          "reset"}
              THEN "kbi_stop" ELSE "raised"
    /\ lock' = IF lock = "controller" THEN "none" ELSE lock
    /\ outcome' = "interrupt"
    /\ UNCHANGED <<spc, action, stop_event, current_timestamps, tmp, pending,
                   task_completion_hold_count, applied, lastApplied, streak,
                   joined, closed>>
    /\ UNCHANGED <<aggVars, treeVars>>
    /\ UNCHANGED obsVars

\* ---- the stepper thread: EnvRunner.run_step ----

\* line 49, after the sleep of lines 56-61
StepperCheck ==
    /\ spc = "check"
    /\ IF StopSeen
       THEN spc' = "exited"
       ELSE /\ applied < max_steps + MaxOvershoot
            /\ spc' = "lock"
    /\ UNCHANGED <<cpc, lock, action, stop_event, current_timestamps, tmp, pending,
                   task_completion_hold_count, applied, lastApplied, streak,
                   outcome, joined, closed>>
    /\ UNCHANGED <<aggVars, treeVars>>
    /\ UNCHANGED obsVars

\* line 51
StepperAcquire ==
    /\ spc = "lock"
    /\ LockFree
    /\ lock' = "stepper"
    /\ spc' = "cs"
    /\ UNCHANGED <<cpc, action, stop_event, current_timestamps, tmp, pending,
                   task_completion_hold_count, applied, lastApplied, streak,
                   outcome, joined, closed>>
    /\ UNCHANGED <<aggVars, treeVars>>
    /\ UNCHANGED obsVars

\* lines 52-53: no action yet, and the lock is released; or env.step(self.action)
StepperStep ==
    /\ spc = "cs"
    /\ IF SlotEmpty(action)
       THEN /\ lock' = "none"
            /\ spc' = "check"
            /\ idleTick' = TRUE
            /\ UNCHANGED <<applied, lastApplied, afterStop>>
       ELSE /\ applied' = applied + 1
            /\ lastApplied' = action
            /\ spc' = "load"
            /\ idleTick' = FALSE
            /\ afterStop' = IF stop_event THEN afterStop + 1 ELSE afterStop
            /\ UNCHANGED lock
    /\ UNCHANGED <<cpc, action, stop_event, current_timestamps, tmp, pending,
                   task_completion_hold_count, streak, outcome, joined, closed>>
    /\ UNCHANGED <<aggVars, treeVars>>
    /\ UNCHANGED <<heldZero, zeroInputs, zeroSets, lastSet, mailbox>>

\* line 54: current_timestamps += 1 loads the global ...
StepperLoad ==
    /\ spc = "load"
    /\ tmp' = current_timestamps
    /\ spc' = "store"
    /\ UNCHANGED <<cpc, lock, action, stop_event, current_timestamps, pending,
                   task_completion_hold_count, applied, lastApplied, streak,
                   outcome, joined, closed>>
    /\ UNCHANGED <<aggVars, treeVars>>
    /\ UNCHANGED obsVars

\* ... and stores the sum; the lock is released; lines 56-61
StepperStore ==
    /\ spc = "store"
    /\ current_timestamps' = tmp + 1
    /\ lock' = "none"
    /\ spc' = "check"
    /\ UNCHANGED <<cpc, action, stop_event, tmp, pending,
                   task_completion_hold_count, applied, lastApplied, streak,
                   outcome, joined, closed>>
    /\ mailbox' = "consumed"
    /\ UNCHANGED <<heldZero, zeroInputs, zeroSets, idleTick, afterStop, lastSet>>
    /\ UNCHANGED <<aggVars, treeVars>>

(***************************************************************************)
(* gather_demonstrations_as_hdf5                                           *)
(***************************************************************************)

\* A chunk file: ns states, na action records, the env name and the flag.
Chunks == [env : Envs, ns : 0..MaxChunkLen, na : 0..MaxChunkLen,
           successful : BOOLEAN]

\* dic["states"] of a chunk file read after `read` states of the episode: the
\* capture numbers the states of an episode 1, 2, ... in the order of the files.
ChunkStates(read, c) == [i \in 1..c.ns |-> read + i]

\* [ai["actions"] for ai in dic["action_infos"]], numbered the same way.
ChunkActions(read, c) == [i \in 1..c.na |-> read + i]

\* line 186: success = True
InitialSuccess == TRUE

\* mutant of UpdateSuccess: the flags are and-ed
UpdateSuccessAnd(s, f) == s /\ f

\* line 197: success = success or dic["successful"]
UpdateSuccess(s, f) == s \/ f

\* mutant of IsEmpty: the empty episode is not skipped
IsEmptyNever(s) == FALSE

\* line 199: len(states) == 0
IsEmpty(s) == Len(s) = 0

\* mutant of DelLast: the first state is deleted instead of the last
DelFirst(s) == SubSeq(s, 2, Len(s))

\* line 208: del states[-1]
DelLast(s) == SubSeq(s, 1, Len(s) - 1)

\* mutant of NextEnvName: the name of the first chunk read is kept
KeepFirstEnv(old, e) == IF old = None THEN e ELSE old

\* line 190: env_name = str(dic["env"])
NextEnvName(old, e) == e

\* line 211: "demo_{}".format(num_eps)
GroupName(n) == <<"demo", n>>

\* The file at hdf5_path before the run: absent, or a dataset exported before.
AbsentFile == [exists |-> FALSE, prior |-> FALSE, groups |-> <<>>, env |-> None,
               closed |-> FALSE]
PriorFile  == [exists |-> TRUE, prior |-> TRUE, groups |-> <<>>, env |-> None,
               closed |-> TRUE]

\* line 172: h5py.File(hdf5_path, "w") creates the file, truncating what was there;
\* line 175: f.create_group("data")
OpenedFile == [exists |-> TRUE, prior |-> FALSE, groups |-> <<>>, env |-> None,
               closed |-> FALSE]

\* mutant of Truncate: the file is opened for appending
KeepPrior(file) == [file EXCEPT !.closed = FALSE]

\* line 172: mode "w"
Truncate(file) == OpenedFile

InitAgg ==
    /\ aggPc = "open"
    /\ before \in {AbsentFile, PriorFile}
    /\ container = before
    /\ num_eps = 0
    /\ env_name = None
    /\ nDirs = 0
    /\ states = <<>>
    /\ actions = <<>>
    /\ success = InitialSuccess
    /\ flags = <<>>
    /\ raw = [ns |-> 0, na |-> 0]
    /\ visited = <<>>

\* lines 171-178
Open ==
    /\ aggPc = "open"
    /\ container' = Truncate(container)
    /\ num_eps' = 0
    /\ env_name' = None
    /\ aggPc' = "listdir"
    /\ UNCHANGED <<before, nDirs, states, actions, success, flags, raw,
                   visited>>
    /\ UNCHANGED <<colVars, obsVars, treeVars>>

\* lines 180-186: the next ep_directory of os.listdir(directory)
NextEpisode ==
    /\ aggPc = "listdir"
    /\ nDirs < MaxEpisodes
    /\ nDirs' = nDirs + 1
    /\ states' = <<>>
    /\ actions' = <<>>
    /\ success' = InitialSuccess
    /\ flags' = <<>>
    /\ raw' = [ns |-> 0, na |-> 0]
    /\ aggPc' = "chunks"
    /\ UNCHANGED <<container, before, num_eps, env_name, visited>>
    /\ UNCHANGED <<colVars, obsVars, treeVars>>

\* lines 188-197: the next state file of sorted(glob(state_paths))
ReadChunk ==
    /\ aggPc = "chunks"
    /\ Len(flags) < MaxChunks
    /\ \E c \in Chunks :
        /\ env_name' = NextEnvName(env_name, c.env)
        /\ states' = states \o ChunkStates(raw.ns, c)
        /\ actions' = actions \o ChunkActions(raw.na, c)
        /\ success' = UpdateSuccess(success, c.successful)
        /\ flags' = Append(flags, c.successful)
        /\ raw' = [ns |-> raw.ns + c.ns, na |-> raw.na + c.na]
    /\ UNCHANGED <<aggPc, container, before, num_eps, nDirs, visited>>
    /\ UNCHANGED <<colVars, obsVars, treeVars>>

\* what the history keeps of an episode directory
Summary == [nonempty |-> raw.ns > 0,
            aligned  |-> raw.ns = raw.na + 1,
            anyTrue  |-> \E i \in 1..Len(flags) : flags[i]]

\* lines 211-224: the group of the episode; without model.xml, open() raises after
\* create_group and before the attribute and the datasets are written
NewGroup(trimmed, hasXml) ==
    [name |-> GroupName(num_eps),
     dir |-> nDirs,
     model_file |-> hasXml,
     states |-> IF hasXml THEN trimmed ELSE <<>>,
     actions |-> IF hasXml THEN actions ELSE <<>>]

\* lines 199-226: the rest of the loop body, after the last chunk file
EndEpisode ==
    /\ aggPc = "chunks"
    /\ visited' = Append(visited, Summary)
    /\ IF IsEmpty(states)
       THEN \* line 200: continue
            /\ aggPc' = "listdir"
            /\ UNCHANGED <<container, num_eps, states>>
       ELSE IF success
       THEN /\ states' = DelLast(states)
            /\ IF Len(states') # Len(actions)
               THEN \* line 209: the assertion fails
                    /\ aggPc' = "AssertionError"
                    /\ UNCHANGED <<container, num_eps>>
               ELSE \E hasXml \in BOOLEAN :  \* line 216: model.xml is there or not
                    /\ container' = [container EXCEPT
                          !.groups = Append(@, NewGroup(states', hasXml))]
                    /\ num_eps' = num_eps + 1
                    /\ aggPc' = IF hasXml THEN "listdir" ELSE "FileNotFoundError"
       ELSE \* line 226
            /\ aggPc' = "listdir"
            /\ UNCHANGED <<container, num_eps, states>>
    /\ UNCHANGED <<before, env_name, nDirs, actions, success, flags, raw>>
    /\ UNCHANGED <<colVars, obsVars, treeVars>>

\* lines 228-236: the listing is exhausted; metadata, close
Finish ==
    /\ aggPc = "listdir"
    /\ container' = [container EXCEPT !.env = env_name, !.closed = TRUE]
    /\ aggPc' = "done"
    /\ UNCHANGED <<before, num_eps, env_name, nDirs, states, actions,
                   success, flags, raw, visited>>
    /\ UNCHANGED <<colVars, obsVars, treeVars>>

(***************************************************************************)
(* gather_demonstrations_as_hdf5 as a function of the raw-directory tree   *)
(***************************************************************************)

\* The digits of the names of the state files: state_9.npz and state_10.npz.
Names == {<<9>>, <<1, 0>>}

\* A state file of at most one state and one action record.
Files == [name : Names, env : Envs, ns : 0..1, na : 0..1, successful : BOOLEAN]

\* glob(state_paths) of a directory holding n files: each file once, any order
DirFiles(n) == {fs \in [1..n -> Files] :
                  \A i, j \in 1..n : i < j => fs[i].name # fs[j].name}

\* An episode directory: its state files as glob lists them, and model.xml
Dirs == [files : UNION {DirFiles(n) : n \in 0..Cardinality(Names)}, xml : BOOLEAN]

RECURSIVE TotalFiles(_)
TotalFiles(t) == IF t = <<>> THEN 0 ELSE Len(Head(t).files) + TotalFiles(Tail(t))

\* The raw-directory trees: the directories in os.listdir order
Trees == UNION {{t \in [1..d -> Dirs] : TotalFiles(t) <= MaxTreeFiles} :
                   d \in 0..MaxTreeDirs}

\* str comparison of two names of digits
RECURSIVE LexLess(_, _)
LexLess(a, b) ==
    IF a = <<>> THEN b # <<>>
    ELSE IF b = <<>> THEN FALSE
    ELSE IF Head(a) # Head(b) THEN Head(a) < Head(b)
    ELSE LexLess(Tail(a), Tail(b))

RECURSIVE Insert(_, _)
Insert(f, s) ==
    IF s = <<>> THEN <<f>>
    ELSE IF LexLess(f.name, Head(s).name) THEN <<f>> \o s
    ELSE <<Head(s)>> \o Insert(f, Tail(s))

\* mutant of Sorted: the files are taken as glob lists them
Unsorted(fs) == fs

\* line 188: sorted(glob(state_paths))
RECURSIVE Sorted(_)
Sorted(fs) == IF fs = <<>> THEN <<>> ELSE Insert(Head(fs), Sorted(Tail(fs)))

\* the arrays of a state file; every entry carries the file and its position
FileStates(f) == [i \in 1..f.ns |-> <<"state", f.name, i>>]
FileActionInfos(f) == [i \in 1..f.na |-> [actions |-> <<"action", f.name, i>>,
                                          rest |-> <<"info", f.name, i>>]]
FilePoses(f) == [i \in 1..f.ns |-> <<"pose", f.name, i>>]
FileSubtasks(f) == [i \in 1..f.na |-> <<"subtask", f.name, i>>]

\* lines 193-194: actions.append(ai["actions"]) for each record
ActionsOf(infos) == [i \in 1..Len(infos) |-> infos[i].actions]

\* lines 182-186
EmptyMerge == [states |-> <<>>, actions |-> <<>>, centric_obj_pose |-> <<>>,
               subtask_begin_index |-> <<>>, success |-> InitialSuccess]

\* lines 192-197 for one state file
MergeFile(m, f) ==
    [states |-> m.states \o FileStates(f),
     actions |-> m.actions \o ActionsOf(FileActionInfos(f)),
     centric_obj_pose |-> m.centric_obj_pose \o FilePoses(f),
     subtask_begin_index |-> m.subtask_begin_index \o FileSubtasks(f),
     success |-> UpdateSuccess(m.success, f.successful)]

RECURSIVE MergeAll(_, _)
MergeAll(m, fs) ==
    IF fs = <<>> THEN m ELSE MergeAll(MergeFile(m, Head(fs)), Tail(fs))

\* lines 188-197: the inner loop over one directory
MergeDir(d) == MergeAll(EmptyMerge, Sorted(d.files))

\* line 190 over the files of one directory
RECURSIVE EnvAfter(_, _)
EnvAfter(env, fs) ==
    IF fs = <<>> THEN env ELSE EnvAfter(NextEnvName(env, Head(fs).env), Tail(fs))

\* lines 211-224 for the k-th directory d
TreeGroup(n, k, d, trimmed, m) ==
    [name |-> GroupName(n),
     dir |-> k,
     model_file |-> d.xml,
     states |-> IF d.xml THEN trimmed ELSE <<>>,
     actions |-> IF d.xml THEN m.actions ELSE <<>>,
     centric_obj_pose |-> IF d.xml THEN m.centric_obj_pose ELSE <<>>,
     subtask_begin_index |-> IF d.xml THEN m.subtask_begin_index ELSE <<>>]

\* lines 181-226: the loop body for the k-th directory d
EpisodeStep(st, d, k) ==
    LET m == MergeDir(d)
        read == [st EXCEPT !.env_name = EnvAfter(@, Sorted(d.files)),
                           !.dirs = k]
    IN  IF IsEmpty(m.states) THEN read
        ELSE IF m.success
        THEN LET trimmed == DelLast(m.states)
             IN  IF Len(trimmed) # Len(m.actions)
                 THEN [read EXCEPT !.exc = "AssertionError"]
                 ELSE [read EXCEPT
                         !.file.groups = Append(@, TreeGroup(st.num_eps, k, d,
                                                             trimmed, m)),
                         !.num_eps = @ + 1,
                         !.exc = IF d.xml THEN "none" ELSE "FileNotFoundError"]
        ELSE read

\* line 180: the loop over os.listdir(directory), left by an exception
RECURSIVE GatherFrom(_, _, _)
GatherFrom(st, t, k) ==
    IF k > Len(t) \/ st.exc # "none" THEN st
    ELSE GatherFrom(EpisodeStep(st, t[k], k), t, k + 1)

\* lines 171-236: the function run on tree t with `file` at hdf5_path
Gather(t, file) ==
    LET st == GatherFrom([file |-> Truncate(file), num_eps |-> 0,
                          env_name |-> None, exc |-> "none", dirs |-> 0], t, 1)
    IN  IF st.exc = "none"
        THEN [st EXCEPT !.file.env = st.env_name, !.file.closed = TRUE]
        ELSE st

\* no tree is being exported
NoTree ==
    /\ tree = <<>>
    /\ runs = 0
    /\ raised = "none"
    /\ merged = <<>>
    /\ first = [file |-> AbsentFile, exc |-> "none"]

\* a tree to export, nothing at hdf5_path yet
InitTree ==
    /\ tree \in Trees
    /\ runs = 0
    /\ raised = "none"
    /\ merged = <<>>
    /\ first = [file |-> AbsentFile, exc |-> "none"]
    /\ InitCol
    /\ InitAgg
    /\ before = AbsentFile

\* one call of gather_demonstrations_as_hdf5 on the unchanged tree; the second call
\* finds the file the first one left
GatherRun ==
    /\ runs < 2
    /\ LET r == Gather(tree, container)
       IN  /\ container' = r.file
           /\ raised' = r.exc
           /\ merged' = [k \in 1..r.dirs |-> MergeDir(tree[k])]
           /\ first' = IF runs = 0 THEN [file |-> r.file, exc |-> r.exc] ELSE first
    /\ runs' = runs + 1
    /\ UNCHANGED <<aggPc, before, num_eps, env_name, nDirs, states, actions, success,
                   flags, raw, visited, tree>>
    /\ UNCHANGED <<colVars, obsVars>>

SpecTree == InitTree /\ [][GatherRun]_vars

NextAgg == Open \/ NextEpisode \/ ReadChunk \/ EndEpisode \/ Finish

\* one aggregation run, no episode being collected
AggInit == InitAgg /\ InitCol /\ NoTree

SpecAgg == AggInit /\ [][NextAgg]_vars

\* one episode of collect_human_trajectory, no aggregation running
Init == InitCol /\ InitAgg /\ before = AbsentFile /\ NoTree

Next ==
    \/ Start \/ Input2Action \/ SetActionAcquire \/ SetActionWrite \/ Latch
    \/ TimeoutCheck \/ ResetCounter \/ SetStop \/ Join \/ Close \/ Interrupt
    \/ StepperCheck \/ StepperAcquire \/ StepperStep \/ StepperLoad \/ StepperStore

Spec == Init /\ [][Next]_vars

\* An episode in which input2action never returns None (line 108) and the hold
\* count never reaches 0 (line 117), without KeyboardInterrupt. No guard of
\* either thread reads the value of an action other than its being None, so the
\* device delivers one value here.
InputNoAbort == Input2Action /\ pending' = "A"

LatchNoSuccess == Latch /\ task_completion_hold_count' # 0

ControllerTimeout ==
    \/ Start \/ InputNoAbort \/ SetActionAcquire \/ SetActionWrite \/ LatchNoSuccess
    \/ TimeoutCheck \/ ResetCounter \/ SetStop \/ Join \/ Close

Stepper ==
    \/ StepperCheck \/ StepperAcquire \/ StepperStep \/ StepperLoad \/ StepperStore

NextTimeout == ControllerTimeout \/ Stepper

\* Both threads are scheduled again and again, and a thread that asks for the
\* lock again and again gets it: the stepper sleeps outside the lock (lines
\* 56-61) and the controller renders between two set_action calls (line 114).
SpecFair ==
    /\ Init
    /\ [][NextTimeout]_vars
    /\ WF_vars(ControllerTimeout)
    /\ WF_vars(Stepper)
    /\ SF_vars(SetActionAcquire)
    /\ SF_vars(StepperAcquire)

(***************************************************************************)
(* Properties of gather_demonstrations_as_hdf5 (checked under SpecAgg)     *)
(***************************************************************************)

Groups == container.groups

\* the group written for the d-th episode directory, if any
HasGroup(d) == \E i \in 1..Len(Groups) : Groups[i].dir = d

\* the function is between two episode directories, or has left the loop
EpisodeEnded == aggPc \in {"listdir", "done", "AssertionError", "FileNotFoundError"}
                  /\ Len(visited) = nDirs /\ nDirs > 0

\* C1: an episode all of whose chunks have successful = false is discarded: a demo
\* group exists only for episodes with at least one chunk whose flag is true.
C1_GroupOnlyIfSomeChunkSucceeded ==
    \A i \in 1..Len(Groups) : visited[Groups[i].dir].anyTrue

\* C2 as stated: every non-empty episode with at least one successful chunk has
\* derived success true and is retained as a group.
C2_SuccessfulChunkRetained ==
    \A d \in 1..Len(visited) :
        (visited[d].nonempty /\ visited[d].anyTrue) => HasGroup(d)

\* C2 as amended: every non-empty episode with at least one successful chunk has
\* derived success true, whatever the other flags and their order, and a group is
\* created for it unless the length assertion of line 209 fails for it.
C2_SuccessfulChunkRetainedIfAligned ==
    /\ (\E i \in 1..Len(flags) : flags[i]) => success
    /\ \A d \in 1..Len(visited) :
        (visited[d].nonempty /\ visited[d].anyTrue /\ visited[d].aligned)
            => HasGroup(d)

\* C2 witness: chunk flags [false, true, false], and the episode has its group
C2_Witness ==
    /\ EpisodeEnded
    /\ flags = <<FALSE, TRUE, FALSE>>
    /\ visited[nDirs].nonempty
    /\ HasGroup(nDirs)

\* C3: for a retained episode with len(states) = len(actions) + 1 before the trim,
\* exactly the last state is removed and the states and actions written have equal
\* length; for any other relationship the assertion fails and nothing is written
\* for the episode.
C3_TrimAlignsOrAsserts ==
    /\ \A i \in 1..Len(Groups) :
          Groups[i].model_file =>
              /\ Len(Groups[i].states) = Len(Groups[i].actions)
              /\ \A j \in 1..Len(Groups[i].states) : Groups[i].states[j] = j
    /\ (EpisodeEnded /\ raw.ns > 0 /\ success) =>
          IF raw.ns = raw.na + 1
          THEN /\ aggPc # "AssertionError"
               /\ HasGroup(nDirs)
               /\ states = [j \in 1..(raw.ns - 1) |-> j]
               /\ Groups[Len(Groups)].model_file =>
                     /\ Groups[Len(Groups)].states = states
                     /\ Len(Groups[Len(Groups)].actions) = raw.ns - 1
          ELSE /\ aggPc = "AssertionError"
               /\ ~HasGroup(nDirs)

\* C3 witness: an episode of three states and two actions has been written
C3_Witness ==
    /\ EpisodeEnded
    /\ raw = [ns |-> 3, na |-> 2]
    /\ HasGroup(nDirs)
    /\ Groups[Len(Groups)].model_file
    /\ Groups[Len(Groups)].states = <<1, 2>>
    /\ Groups[Len(Groups)].actions = <<1, 2>>

\* C4: when the length check fails the run commits no partial output: the file at
\* the target path is what it was before the run.
C4_NoPartialOutput ==
    aggPc = "AssertionError" => container = before

\* the episode directories for which the code creates a group
Kept == {d \in 1..Len(visited) : visited[d].nonempty /\ visited[d].aligned}

ControllerInCS == cpc = "set_write"

\* the stepper is inside `with self.lock` of run_step
StepperInCS == spc \in {"cs", "load", "store"}

\* C6: set_action and the stepper's read-apply-increment block are mutually
\* exclusive, so every simulation step is applied with an action that was set in
\* full, and the action does not change under the block.
C6_MutualExclusion ==
    /\ ~(ControllerInCS /\ StepperInCS)
    /\ ControllerInCS => lock = "controller"
    /\ StepperInCS => lock = "stepper"
    /\ applied > 0 => lastApplied \in Actions
    /\ spc \in {"load", "store"} => action = lastApplied

\* C6 witness: the controller waits to set B while the stepper is applying A
C6_Witness ==
    /\ cpc = "set_lock"
    /\ pending = "B"
    /\ spc = "load"
    /\ lastApplied = "A"
    /\ lock = "stepper"

\* C7: the accesses to the tick counter are serialized, so while the stepper is
\* running, and outside its read-apply-increment block, the counter equals the
\* number of simulation steps applied in the episode (never skipped, never double
\* counted, never decreased).
C7_CounterCountsSteps ==
    (spc # "exited" /\ lock # "stepper") => current_timestamps = applied

\* C8: 10 consecutive true evaluations of the success predicate, starting from
\* NOT_HOLDING, bring the latch to HOLDING(0), and the episode terminates before
\* an 11th evaluation.
C8_TenPassesReachZero ==
    /\ streak = 10 => task_completion_hold_count = 0
    /\ streak <= 10

\* C9 as stated: with max_steps = 500 the timeout exit is taken exactly at 500
\* applied steps, not before, and the stepper never applies a 501st step in an
\* episode that has not ended by success or abort.
C9_TimeoutExactlyAtMaxSteps ==
    /\ outcome = "timeout" => applied >= max_steps
    /\ outcome \in {"running", "timeout"} => applied <= max_steps

\* C9 as amended: the timeout exit is never taken while fewer than max_steps = 500
\* steps have been applied (the counter the controller read was at least 500); the
\* stepper may apply further steps until it observes the stop signal.
C9_TimeoutNotBeforeMaxSteps ==
    /\ max_steps = 500
    /\ outcome = "timeout" => applied >= max_steps
    /\ cpc = "reset" => current_timestamps >= max_steps

\* C9 witness: an episode ended by timeout in which 501 or more steps were applied
C9_Witness ==
    /\ cpc = "done"
    /\ outcome = "timeout"
    /\ applied > max_steps

\* C10: on the success, timeout and abort paths the controller sets the stop
\* signal, then joins the stepper, then closes the simulation, in that order, and
\* no simulation step is applied and the tick counter is not changed once the join
\* has returned or env.close has begun.
C10_StopJoinClose ==
    /\ [](/\ closed => joined
          /\ joined => (stop_event /\ spc = "exited")
          /\ cpc \in {"join", "close", "done"} => stop_event
          /\ cpc \in {"close", "done"} => joined
          /\ (cpc = "done" /\ outcome \in {"success", "timeout", "abort"})
                => (stop_event /\ joined /\ closed))
    /\ [][(joined \/ closed) =>
            (applied' = applied /\ current_timestamps' = current_timestamps)]_vars

\* C10 witness: an episode ended by success, closed after steps were applied
C10_Witness ==
    /\ cpc = "done"
    /\ outcome = "success"
    /\ closed
    /\ applied > 0

\* C11: whenever control leaves collect_human_trajectory after the stepper thread
\* was started, by normal termination or by an interrupt, the stop signal has been
\* set and the stepper thread has exited.
C11_CleanupOnEveryExit ==
    cpc \in {"done", "raised"} => (stop_event /\ spc = "exited")

\* A step of the controller on which env._check_success() is evaluated (line 121).
PredicateEvaluated == cpc = "latch" /\ cpc' = "timeout"

\* C14: the hold count starts at -1 and stays in {-1} \cup 0..10; on each
\* evaluation of the predicate, false leads to -1, true leads from -1 to 10 and
\* from n > 0 to n - 1; no other step changes it, and 0 is never left.
C14_LatchRelation ==
    /\ [](/\ task_completion_hold_count \in {NotHolding} \cup 0..HoldStart
          /\ (cpc = "start" => task_completion_hold_count = NotHolding))
    /\ [][/\ (PredicateEvaluated /\ streak' = 0) =>
                 task_completion_hold_count' = NotHolding
          /\ (PredicateEvaluated /\ streak' = streak + 1
                 /\ task_completion_hold_count = NotHolding) =>
                 task_completion_hold_count' = HoldStart
          /\ (PredicateEvaluated /\ streak' = streak + 1
                 /\ task_completion_hold_count > 0) =>
                 task_completion_hold_count' = task_completion_hold_count - 1
          /\ ~PredicateEvaluated =>
                 task_completion_hold_count' = task_completion_hold_count
          /\ task_completion_hold_count = 0 => task_completion_hold_count' = 0
         ]_vars

\* the count has gone from -1 through 10 down to 0 on eleven true evaluations,
\* and the loop was left without a restart
C14_Witness ==
    /\ task_completion_hold_count = 0
    /\ streak = HoldStart + 1
    /\ cpc = "stop"
    /\ outcome = "success"

C16_LatestValueWins ==
    /\ [](action = lastSet)
    /\ [][applied' # applied =>
             (applied' = applied + 1 /\ lastApplied' = lastSet /\ lastSet # None)
         ]_vars

\* the tick applied B although A (or B, then A) had been set and overwritten
\* since the previous tick
C16_Witness ==
    /\ spc = "load"
    /\ mailbox = "overwritten"
    /\ lastApplied = "B"
    /\ lastSet = "B"
    /\ applied > 1

\* C17: while no action has been set nothing is stepped and the counter is 0; a
\* tick that finds the slot empty releases the lock, returns to the loop
\* condition and changes neither the step count nor the counter.
C17_IdleTickIsNoOp ==
    /\ [](action = None =>
             applied = 0 /\ current_timestamps = 0 /\ lastApplied = None)
    /\ [][(spc = "cs" /\ action = None /\ spc' # spc) =>
             /\ spc' = "check"
             /\ lock' = "none"
             /\ applied' = applied
             /\ lastApplied' = lastApplied
             /\ current_timestamps' = current_timestamps
         ]_vars

\* an idle tick was followed by the stepper seeing the stop signal
C17_Witness ==
    /\ idleTick
    /\ action = None
    /\ applied = 0
    /\ spc = "exited"

\* C18: after the stop signal is set the stepper applies at most one more step,
\* that of an iteration whose loop condition was evaluated before the signal,
\* starts no further iteration after it, and leaves the loop only on the signal.
C18_StopWithinOneTick ==
    /\ afterStop <= 1
    /\ (afterStop = 1 => stop_event /\ spc \notin {"lock", "cs"})
    /\ (spc = "exited" => stop_event)

\* one step was applied after the signal and the stepper has then exited
C18_Witness ==
    /\ afterStop = 1
    /\ spc = "exited"
    /\ joined

\* C19: under fair scheduling, an episode without abort and without success ends
\* by timeout: the stop signal is set, the stepper exits, the join returns and
\* the simulation is closed.
C19_EndsByTimeout ==
    <>(/\ cpc = "done"
       /\ outcome = "timeout"
       /\ applied >= max_steps
       /\ stop_event
       /\ spc = "exited"
       /\ joined
       /\ closed)

\* the loop was left by the timeout and the cleanup has run
C19_Witness ==
    /\ cpc = "done"
    /\ outcome = "timeout"
    /\ applied >= max_steps
    /\ joined
    /\ closed

(***************************************************************************)
(* Properties of the export of a given tree (checked under SpecTree)       *)
(***************************************************************************)

\* dic["env"] of the chunk records in the order the run reads them
RECURSIVE ChunkEnvs(_)
ChunkEnvs(t) ==
    IF t = <<>> THEN <<>>
    ELSE LET fs == Sorted(Head(t).files)
         IN  [i \in 1..Len(fs) |-> fs[i].env] \o ChunkEnvs(Tail(t))

\* a run has returned normally after reading at least one chunk record
ExportedSomeChunk == runs > 0 /\ raised = "none" /\ ChunkEnvs(tree) # <<>>

\* C12: the env attribute of the exported dataset is the environment identifier
\* of the first chunk record read in the run; later records do not change it.
C12_EnvOfFirstChunk ==
    ExportedSomeChunk => container.env = Head(ChunkEnvs(tree))

\* C12, amended: the env attribute is the environment identifier of the last
\* chunk record read in the run, whether its episode is retained or not.
C12_EnvOfLastChunk ==
    ExportedSomeChunk => container.env = ChunkEnvs(tree)[Len(ChunkEnvs(tree))]

\* the first and the last record read name different environments
C12_Witness ==
    /\ ExportedSomeChunk
    /\ Head(ChunkEnvs(tree)) = "Lift"
    /\ container.env = "Stack"

ByRank(fs) ==
    [r \in 1..Len(fs) |->
        CHOOSE f \in {fs[i] : i \in 1..Len(fs)} :
            Cardinality({i \in 1..Len(fs) : LexLess(fs[i].name, f.name)}) = r - 1]

RECURSIVE ConcatOf(_)
ConcatOf(ss) == IF ss = <<>> THEN <<>> ELSE Head(ss) \o ConcatOf(Tail(ss))

\* the entries of one kind, as many per file as its count field says, file after
\* file
Entries(kind, fs, count) ==
    ConcatOf([r \in 1..Len(fs) |->
                 [i \in 1..fs[r][count] |-> <<kind, fs[r].name, i>>]])

\* C20: the merged states, actions, poses and subtask indices of every episode
\* are the per-file sequences concatenated in ascending lexicographic order of
\* the file names, inner order kept; actions holds the "actions" field of every
\* action record, one per record; a written group holds these sequences.
C20_MergedInNameOrder ==
    /\ \A k \in 1..Len(merged) :
          LET fs == ByRank(tree[k].files)
          IN  /\ merged[k].states = Entries("state", fs, "ns")
              /\ merged[k].actions = Entries("action", fs, "na")
              /\ merged[k].centric_obj_pose = Entries("pose", fs, "ns")
              /\ merged[k].subtask_begin_index = Entries("subtask", fs, "na")
    /\ \A g \in 1..Len(container.groups) :
          LET grp == container.groups[g]
          IN  (runs > 0 /\ grp.model_file) =>
                 /\ grp.states \o <<merged[grp.dir].states[Len(grp.states) + 1]>>
                       = merged[grp.dir].states
                 /\ grp.actions = merged[grp.dir].actions
                 /\ grp.centric_obj_pose = merged[grp.dir].centric_obj_pose
                 /\ grp.subtask_begin_index = merged[grp.dir].subtask_begin_index

\* glob listed state_9 before state_10; the merge took state_10 first
C20_Witness ==
    /\ runs > 0
    /\ Len(tree) > 0
    /\ Len(tree[1].files) = 2
    /\ tree[1].files[1].name = <<9>>
    /\ tree[1].files[2].name = <<1, 0>>
    /\ merged[1].states = << <<"state", <<1, 0>>, 1>>, <<"state", <<9>>, 1>> >>
    /\ merged[1].actions = << <<"action", <<9>>, 1>> >>
    /\ Len(container.groups) = 1
    /\ container.groups[1].states = << <<"state", <<1, 0>>, 1>> >>

====
